---- MODULE Spec2Model ----
(***************************************************************************)
(* Model of main.go: the monthly-playlist sync of a user's saved tracks.   *)
(* The process (main) runs sequentially against a remote service (saved    *)
(* tracks, playlists) and a credential file.  Specifications:              *)
(*   RunSpec    one run of main from a fresh installation;                 *)
(*   Spec       main run up to MaxRuns times in succession;                *)
(*   AuthSpec   the same while access tokens expire, over a small library; *)
(*   PagerSpec  one paginated enumeration, page by page;                   *)
(*   EntrySpec  one run over a library with malformed entries;             *)
(*   AppendSpec AddItemsToPlaylist called on its own;                      *)
(*   WriteSpec  WriteTokenToPath step by step, with crashes.               *)
(***************************************************************************)
EXTENDS Integers, Sequences, FiniteSets, TLC

VARIABLES
    \* ---- the process (main) ----
    pc,             \* position in main, or how the process ended
    run,            \* which run of the program this is (1..MaxRuns)
    token,          \* main's token (line 408/419); 0 before it is set
    clientToken,    \* access token held by the authorized client (line 442)
    playlists,      \* result of EnumerateCurrentUsersPlaylists (line 458)
    tracks,         \* result of EnumerateUsersSavedTracks (line 463)
    reverseTracks,  \* line 468
    idx,            \* position of the bucketing loop in reverseTracks (1-based)
    playlistMap,    \* line 474: label -> playlist id
    tracksByMonth,  \* line 475: label -> pending URIs
    todo,           \* labels the range loop of line 546 has yet to visit
    \* ---- the environment ----
    tokenFile,      \* content of token.json: NoFile, Partial or a token
    issued,         \* number of access tokens the token endpoint has issued
    expiredUpTo,    \* tokens 1..expiredUpTo are past their expiry
    remotePlaylists,\* the user's playlists on the remote, in list order
    savedTracks,    \* the user's saved tracks on the remote, newest first
    \* ---- history (what the process did) ----
    appendCalls,    \* AddItemsToPlaylist calls, in order
    createCalls,    \* CreatePlaylist calls, in order
    logAdded,       \* "added %d tracks to %s" log lines (line 595)
    exchanges,      \* config.Exchange calls of the current run
    exits,          \* how each earlier run ended
    \* ---- one paginated enumeration (PagerSpec) ----
    pgPc, pgWhich, pgPages, pgMap, pgItems, pgNext, pgGets, pgNetErr, pgResult,
    \* ---- one call of WriteTokenToPath (WriteSpec) ----
    fileAtCall      \* content of token.json when WriteTokenToPath was called

mainVars == <<pc, run, token, clientToken, playlists, tracks, reverseTracks,
              idx, playlistMap, tracksByMonth, todo, tokenFile, issued,
              expiredUpTo, remotePlaylists, savedTracks, appendCalls,
              createCalls, logAdded, exchanges, exits>>
pagerVars == <<pgPc, pgWhich, pgPages, pgMap, pgItems, pgNext, pgGets, pgNetErr,
               pgResult>>
callVars == <<fileAtCall>>
vars == <<mainVars, pagerVars, callVars>>

----------------------------------------------------------------------------
\* Bounds of the model.
MaxTracks == 4          \* saved tracks on the remote
MaxInitPlaylists == 2   \* playlists the user has before the first run
PageLimit == 2          \* items per page served by the remote
MaxRuns == 2            \* runs of the program in succession
MaxTokens == 3          \* access tokens the token endpoint issues
MaxPages == 3           \* pages of a list endpoint (PagerSpec)
MaxGets == 5            \* GET requests of one enumeration (PagerSpec)
MaxUris == 2            \* URIs handed to one AddItemsToPlaylist call (AppendSpec)

URIs == {"A", "B", "C", "D"}
\* added_at values (RFC 3339, UTC): year and month decide the label.
Stamps == {[y |-> 2024, m |-> 1], [y |-> 2024, m |-> 2]}

SeqsUpTo(S, n) == UNION {[1..k -> S] : k \in 0..n}

RECURSIVE Concat(_)
Concat(ss) == IF ss = <<>> THEN <<>> ELSE Head(ss) \o Concat(Tail(ss))

Range(s) == {s[k] : k \in 1..Len(s)}

EmptyMap == [l \in {} |-> 0]

----------------------------------------------------------------------------
\* Pagination (EnumerateCurrentUsersPlaylists, EnumerateUsersSavedTracks).
\* A response page is a JSON object whose fields "items" and "next" may be
\* absent; next = Null is JSON null, otherwise the index of the next page.
Null == 0
Page(hasItems, items, hasNext, next) ==
    [hasItems |-> hasItems, items |-> items, hasNext |-> hasNext, next |-> next]

\* var playlists map[string]interface{}: the nil map before the first Decode.
NilMap == Page(FALSE, <<>>, FALSE, Null)

\* json.Decoder.Decode into a map: a nil map is allocated, an existing map is
\* reused and keeps the entries the new object does not set.
Decode(m, page) ==
    Page(m.hasItems \/ page.hasItems,
         IF page.hasItems THEN page.items ELSE m.items,
         m.hasNext \/ page.hasNext,
         IF page.hasNext THEN page.next ELSE m.next)

\* State of an enumeration: the decode target, the accumulator, the local
\* next, whether it returned an error.
EnumState(m, items, next, err) ==
    [map |-> m, items |-> items, next |-> next, err |-> err]

\* Lines 139-158 (77-102): the first page.
FirstPage(page, getOk) ==
    LET m == Decode(NilMap, page) IN
    IF ~getOk THEN EnumState(NilMap, <<>>, Null, TRUE)
    ELSE IF ~m.hasItems THEN EnumState(m, <<>>, Null, TRUE)
    ELSE IF ~m.hasNext THEN EnumState(m, m.items, Null, TRUE)
    ELSE EnumState(m, m.items, m.next, FALSE)

\* LoopBody with the page's items replacing the accumulator (items = nextItems).
LoopBodyOverwrite(st, page, getOk) ==
    LET m == Decode(st.map, page) IN
    IF ~getOk THEN EnumState(st.map, st.items, st.next, TRUE)
    ELSE IF ~m.hasItems THEN EnumState(m, st.items, st.next, TRUE)
    ELSE IF ~m.hasNext THEN EnumState(m, m.items, st.next, TRUE)
    ELSE EnumState(m, m.items, m.next, FALSE)

\* Lines 160-188 (104-132): one iteration of the loop, next # nil.
LoopBody(st, page, getOk) ==
    LET m == Decode(st.map, page) IN
    IF ~getOk THEN EnumState(st.map, st.items, st.next, TRUE)
    ELSE IF ~m.hasItems THEN EnumState(m, st.items, st.next, TRUE)
    ELSE IF ~m.hasNext THEN EnumState(m, st.items \o m.items, st.next, TRUE)
    ELSE EnumState(m, st.items \o m.items, m.next, FALSE)

\* The whole enumeration against pages that are all served (no transport
\* error); fuel bounds the requests.
RECURSIVE EnumLoop(_, _, _)
EnumLoop(st, pages, fuel) ==
    IF st.err THEN [err |-> TRUE, items |-> <<>>]
    ELSE IF st.next = Null THEN [err |-> FALSE, items |-> st.items]
    ELSE IF fuel = 0 THEN [err |-> TRUE, items |-> <<>>]
    ELSE EnumLoop(LoopBody(st, pages[st.next], TRUE), pages, fuel - 1)

Enumerate(pages) ==
    EnumLoop(FirstPage(pages[1], TRUE), pages, Len(pages))

EnumerateCurrentUsersPlaylists(pages) == Enumerate(pages)
EnumerateUsersSavedTracks(pages) == Enumerate(pages)

\* The remote's paging of a list: pages of at most PageLimit items, linked by
\* next, the last page with next = null; an empty list is one empty page.
NumPages(list) ==
    IF Len(list) = 0 THEN 1 ELSE (Len(list) + PageLimit - 1) \div PageLimit

Paginate(list) ==
    [k \in 1..NumPages(list) |->
        Page(TRUE,
             SubSeq(list, (k - 1) * PageLimit + 1,
                    IF k * PageLimit < Len(list) THEN k * PageLimit ELSE Len(list)),
             TRUE,
             IF k < NumPages(list) THEN k + 1 ELSE Null)]

----------------------------------------------------------------------------
\* Credential file (ReadTokenFromPath, WriteTokenToPath) and token expiry.
NoFile == 0             \* token.json does not exist
Partial == -1           \* token.json exists, empty or cut short
NoDir == -2             \* the directory of token.json does not exist

\* ReadTokenFromPath that takes a missing file for an empty token.
ReadTokenFromPathNoErr(file) ==
    IF file = NoFile \/ file = Partial \/ file = NoDir
    THEN [err |-> FALSE, token |-> 0]
    ELSE [err |-> FALSE, token |-> file]

\* Lines 20-33: any failure (no file, undecodable content) is an error.
ReadTokenFromPath(file) ==
    IF file = NoFile \/ file = Partial \/ file = NoDir
    THEN [err |-> TRUE, token |-> 0]
    ELSE [err |-> FALSE, token |-> file]

\* Lines 278-294: MkdirAll, os.Create (truncates the file), Encode.
\* outcome says which step fails, if any.
WriteOutcomes == {"ok", "mkdir_err", "create_err", "encode_err"}
WriteTokenToPath(file, tok, outcome) ==
    CASE outcome = "ok"         -> [err |-> FALSE, file |-> tok]
      [] outcome = "mkdir_err"  -> [err |-> TRUE, file |-> file]
      [] outcome = "create_err" -> [err |-> TRUE, file |-> file]
      [] outcome = "encode_err" -> [err |-> TRUE, file |-> Partial]

\* oauth2.Token.Valid: the access token is not past its expiry.
Valid(tok) == tok > expiredUpTo

----------------------------------------------------------------------------
\* Month labels, the reversal and the merge (main).
MonthName == <<"January", "February", "March", "April", "May", "June", "July",
               "August", "September", "October", "November", "December">>

\* Label with a layout that leaves the month out.
LabelWithoutMonth(t) == <<"January", t.y % 100>>

\* Line 498: t.Format("January '06"): month name and two-digit year.
Label(t) == <<MonthName[t.m], t.y % 100>>

\* A playlist name that is no month label.
OtherName == <<"Liked", 0>>

\* The zero value of a slot of reverseTracks (a nil interface).
Nil == [nil |-> TRUE]

\* Lines 468-471: slots i and j are filled while i < j (0-based i = k - 1,
\* j = n - k); a slot the loop never reaches keeps its zero value.
ReverseTracks(ts) ==
    LET n == Len(ts) IN
    [k \in 1..n |-> IF (k - 1 < n - k) \/ (n - k < k - 1) THEN ts[n + 1 - k] ELSE Nil]

\* A saved-track entry whose added_at is missing, is no string or is no
\* RFC 3339 time; an entry whose track has no uri string.
BadStamp == [y |-> 0, m |-> 0]
NoUri == ""

\* Lines 483-496: added_at is a string (line 483) that time.Parse accepts
\* (line 493).
DecodableAddedAt(track) == track.added_at # BadStamp

\* A uri assertion that takes whatever the entry holds.
DecodableUriAlways(track) == TRUE

\* Line 499: trackMap["uri"].(string).
DecodableUri(track) == track.uri # NoUri

\* Exists that never finds the key.
ExistsNever(m, name) == FALSE

\* Lines 505 and 527: _, exists := playlistMap[targetPlaylistName].
Exists(m, name) == name \in DOMAIN m

\* FindPlaylist without the break of line 523: the last match wins.
RECURSIVE FindPlaylistLast(_, _)
FindPlaylistLast(pls, name) ==
    IF pls = <<>> THEN 0
    ELSE IF pls[Len(pls)].name = name THEN pls[Len(pls)].id
    ELSE FindPlaylistLast(SubSeq(pls, 1, Len(pls) - 1), name)

\* Lines 506-525: the id of the first playlist of the fetched list whose name
\* is the label; 0 when there is none.
RECURSIVE FindPlaylist(_, _)
FindPlaylist(pls, name) ==
    IF pls = <<>> THEN 0
    ELSE IF Head(pls).name = name THEN Head(pls).id
    ELSE FindPlaylist(Tail(pls), name)

\* Lines 36-54 and 555-582: the URIs of the items in the get-playlist
\* response, which carries the first page of the playlist's items.
ExistingTracks(items) ==
    {items[k] : k \in 1..(IF Len(items) < PageLimit THEN Len(items) ELSE PageLimit)}

\* NewUris that puts each new URI in front of the ones before it.
RECURSIVE NewUrisPrepend(_, _)
NewUrisPrepend(uris, existing) ==
    IF uris = <<>> THEN <<>>
    ELSE IF Head(uris) \in existing THEN NewUrisPrepend(Tail(uris), existing)
    ELSE NewUrisPrepend(Tail(uris), existing) \o <<Head(uris)>>

\* Lines 584-589: the pending URIs not among the existing ones, in order.
RECURSIVE NewUris(_, _)
NewUris(uris, existing) ==
    IF uris = <<>> THEN <<>>
    ELSE IF Head(uris) \in existing THEN NewUris(Tail(uris), existing)
    ELSE <<Head(uris)>> \o NewUris(Tail(uris), existing)

\* Lines 194-229: the error AddItemsToPlaylist returns for a response:
\* only a transport error; the status code is not read.
AddItemsToPlaylistErr(resp) == resp = "net_err"

\* Lines 232-275: the error CreatePlaylist returns: a transport error; the
\* status code is not read (an error body decodes without error).
CreatePlaylistErr(resp) == resp = "net_err"

\* Lines 297-324: DeletePlaylist returns an error for every status but 200.
DeletePlaylistErr(resp) == resp # "ok"

Responses == {"ok", "rejected", "net_err"}

RemoteById(id) == CHOOSE p \in Range(remotePlaylists) : p.id = id

\* The playlist objects of the list endpoint (id and name).
PlaylistObjects == [k \in 1..Len(remotePlaylists) |->
                       [id |-> remotePlaylists[k].id, name |-> remotePlaylists[k].name]]

----------------------------------------------------------------------------
\* The authorized client (config.Client, line 442): before a request is sent
\* a token past its expiry is refreshed, in memory only.
CanSend == Valid(clientToken) \/ issued < MaxTokens
ClientTokenAfter == IF Valid(clientToken) THEN clientToken ELSE issued + 1
IssuedAfter == IF Valid(clientToken) THEN issued ELSE issued + 1

Sent ==
    /\ CanSend
    /\ clientToken' = ClientTokenAfter
    /\ issued' = IssuedAfter

\* log.Fatalln / log.Fatalf (kind "fatal") or a failed type assertion (kind
\* "panic"): the process exits and its memory is gone.
Abort(kind) ==
    /\ pc' = kind
    /\ token' = 0
    /\ clientToken' = 0
    /\ playlists' = <<>>
    /\ tracks' = <<>>
    /\ reverseTracks' = <<>>
    /\ idx' = 1
    /\ playlistMap' = EmptyMap
    /\ tracksByMonth' = EmptyMap
    /\ todo' = {}

history == <<appendCalls, createCalls, logAdded>>
remote == <<remotePlaylists, savedTracks>>
loopVars == <<playlists, tracks, reverseTracks, idx, playlistMap, tracksByMonth, todo>>

\* Line 408.
ReadToken ==
    /\ pc = "start"
    /\ LET r == ReadTokenFromPath(tokenFile) IN
       /\ pc' = IF r.err THEN "auth" ELSE "refresh"
       /\ token' = r.token
    /\ UNCHANGED <<run, exits, clientToken, loopVars, tokenFile, issued, expiredUpTo,
                   remote, history, exchanges, pagerVars, callVars>>

\* Lines 409-427: the authorization flow. step says how far it gets.
Authorize ==
    /\ pc = "auth"
    /\ \E step \in {"scan_err", "exchange_err"} \cup WriteOutcomes :
        CASE step = "scan_err" ->
               /\ Abort("fatal")
               /\ UNCHANGED <<tokenFile, issued, exchanges>>
          [] step = "exchange_err" ->
               /\ Abort("fatal")
               /\ exchanges' = exchanges + 1
               /\ UNCHANGED <<tokenFile, issued>>
          [] OTHER ->
               LET w == WriteTokenToPath(tokenFile, issued + 1, step) IN
               /\ issued < MaxTokens
               /\ exchanges' = exchanges + 1
               /\ issued' = issued + 1
               /\ tokenFile' = w.file
               /\ IF w.err
                  THEN Abort("fatal")
                  ELSE /\ pc' = "refresh"
                       /\ token' = issued + 1
                       /\ UNCHANGED <<clientToken, loopVars>>
    /\ UNCHANGED <<run, exits, expiredUpTo, remote, history, pagerVars, callVars>>

\* Lines 429-442: tokenSource.Token() refreshes a token past its expiry; a
\* changed access token is written back; the client is built on newToken.
StartupRefresh ==
    /\ pc = "refresh"
    /\ IF Valid(token)
       THEN /\ pc' = "profile"
            /\ clientToken' = token
            /\ UNCHANGED <<token, loopVars, tokenFile, issued>>
       ELSE \E refreshOk \in BOOLEAN, out \in WriteOutcomes :
            IF ~refreshOk
            THEN /\ out = "ok"
                 /\ Abort("fatal")
                 /\ UNCHANGED <<tokenFile, issued>>
            ELSE LET newToken == issued + 1
                     w == IF newToken # token
                          THEN WriteTokenToPath(tokenFile, newToken, out)
                          ELSE [err |-> FALSE, file |-> tokenFile] IN
                 /\ issued < MaxTokens
                 /\ issued' = newToken
                 /\ tokenFile' = w.file
                 /\ IF w.err
                    THEN Abort("fatal")
                    ELSE /\ pc' = "profile"
                         /\ clientToken' = newToken
                         /\ UNCHANGED <<token, loopVars>>
    /\ UNCHANGED <<run, exits, expiredUpTo, remote, history, exchanges, pagerVars, callVars>>

\* Lines 448-456.
GetProfile ==
    /\ pc = "profile"
    /\ \E ok \in BOOLEAN :
        IF ok
        THEN /\ Sent
             /\ pc' = "playlists"
             /\ UNCHANGED <<token, loopVars>>
        ELSE /\ Abort("fatal")
             /\ UNCHANGED issued
    /\ UNCHANGED <<run, exits, tokenFile, expiredUpTo, remote, history, exchanges, pagerVars, callVars>>

\* Lines 458-461.
FetchPlaylists ==
    /\ pc = "playlists"
    /\ \E ok \in BOOLEAN :
        LET r == EnumerateCurrentUsersPlaylists(Paginate(PlaylistObjects)) IN
        IF ok /\ ~r.err
        THEN /\ Sent
             /\ pc' = "tracks"
             /\ playlists' = r.items
             /\ UNCHANGED <<token, tracks, reverseTracks, idx, playlistMap,
                            tracksByMonth, todo>>
        ELSE /\ Abort("fatal")
             /\ UNCHANGED issued
    /\ UNCHANGED <<run, exits, tokenFile, expiredUpTo, remote, history, exchanges, pagerVars, callVars>>

\* Lines 463-466.
FetchTracks ==
    /\ pc = "tracks"
    /\ \E ok \in BOOLEAN :
        LET r == EnumerateUsersSavedTracks(Paginate(savedTracks)) IN
        IF ok /\ ~r.err
        THEN /\ Sent
             /\ pc' = "reverse"
             /\ tracks' = r.items
             /\ UNCHANGED <<token, playlists, reverseTracks, idx, playlistMap,
                            tracksByMonth, todo>>
        ELSE /\ Abort("fatal")
             /\ UNCHANGED issued
    /\ UNCHANGED <<run, exits, tokenFile, expiredUpTo, remote, history, exchanges, pagerVars, callVars>>

\* Lines 468-475.
Reverse ==
    /\ pc = "reverse"
    /\ pc' = "bucket"
    /\ reverseTracks' = ReverseTracks(tracks)
    /\ idx' = 1
    /\ playlistMap' = EmptyMap
    /\ tracksByMonth' = EmptyMap
    /\ UNCHANGED <<run, exits, token, clientToken, playlists, tracks, todo, tokenFile,
                   issued, expiredUpTo, remote, history, exchanges, pagerVars, callVars>>

\* Lines 477-544: one iteration of the bucketing loop.
BucketStep ==
    /\ pc = "bucket"
    /\ idx <= Len(reverseTracks)
    /\ LET track == reverseTracks[idx] IN
       IF track = Nil
       THEN \* line 478: the type assertion on a nil slot fails
            /\ Abort("fatal")
            /\ UNCHANGED <<issued, remotePlaylists, createCalls>>
       ELSE IF ~DecodableAddedAt(track)
       THEN \* lines 485, 495
            /\ Abort("fatal")
            /\ UNCHANGED <<issued, remotePlaylists, createCalls>>
       ELSE IF ~DecodableUri(track)
       THEN \* line 499: the type assertion panics
            /\ Abort("panic")
            /\ UNCHANGED <<issued, remotePlaylists, createCalls>>
       ELSE
         LET targetPlaylistName == Label(track.added_at)
             pending == IF targetPlaylistName \in DOMAIN tracksByMonth
                        THEN tracksByMonth[targetPlaylistName] ELSE <<>>
             byMonth == [l \in DOMAIN tracksByMonth \cup {targetPlaylistName} |->
                           IF l = targetPlaylistName
                           THEN Append(pending, track.uri)
                           ELSE tracksByMonth[l]]
             found == FindPlaylist(playlists, targetPlaylistName)
             newId == Len(remotePlaylists) + 1
         IN
         IF Exists(playlistMap, targetPlaylistName)
         THEN /\ pc' = "bucket"
              /\ idx' = idx + 1
              /\ tracksByMonth' = byMonth
              /\ UNCHANGED <<token, clientToken, playlists, tracks, reverseTracks,
                             playlistMap, todo, issued, remotePlaylists, createCalls>>
         ELSE IF found # 0
         THEN /\ pc' = "bucket"
              /\ idx' = idx + 1
              /\ tracksByMonth' = byMonth
              /\ playlistMap' = (targetPlaylistName :> found) @@ playlistMap
              /\ UNCHANGED <<token, clientToken, playlists, tracks, reverseTracks,
                             todo, issued, remotePlaylists, createCalls>>
         ELSE \E resp \in Responses :
              /\ createCalls' = Append(createCalls,
                     [run |-> run, name |-> targetPlaylistName, resp |-> resp,
                      err |-> CreatePlaylistErr(resp)])
              /\ IF CreatePlaylistErr(resp)
                 THEN \* line 538
                      /\ Abort("fatal")
                      /\ UNCHANGED <<issued, remotePlaylists>>
                 ELSE IF resp # "ok"
                 THEN \* line 541: the error body has no "id": the assertion panics
                      /\ CanSend
                      /\ issued' = IssuedAfter
                      /\ Abort("panic")
                      /\ UNCHANGED remotePlaylists
                 ELSE /\ Sent
                      /\ remotePlaylists' = Append(remotePlaylists,
                             [id |-> newId, name |-> targetPlaylistName, items |-> <<>>])
                      /\ pc' = "bucket"
                      /\ idx' = idx + 1
                      /\ tracksByMonth' = byMonth
                      /\ playlistMap' = (targetPlaylistName :> newId) @@ playlistMap
                      /\ UNCHANGED <<token, playlists, tracks, reverseTracks, todo>>
    /\ UNCHANGED <<run, exits, tokenFile, expiredUpTo, savedTracks, appendCalls, logAdded,
                   exchanges, pagerVars, callVars>>

\* Line 477 -> 546: the bucketing loop is over; the range loop starts.
BucketDone ==
    /\ pc = "bucket"
    /\ idx > Len(reverseTracks)
    /\ pc' = "merge"
    /\ todo' = DOMAIN tracksByMonth
    /\ UNCHANGED <<run, exits, token, clientToken, playlists, tracks, reverseTracks, idx,
                   playlistMap, tracksByMonth, tokenFile, issued, expiredUpTo,
                   remote, history, exchanges, pagerVars, callVars>>

\* Lines 546-597: one iteration of the range loop (Go visits the map's keys
\* in no fixed order).
MergeStep ==
    /\ pc = "merge"
    /\ \E month \in todo, getOk \in BOOLEAN, resp \in Responses :
        LET uris == tracksByMonth[month]
            targetPlaylistId == playlistMap[month]
            playlist == RemoteById(targetPlaylistId)
            existingTracks == ExistingTracks(playlist.items)
            newUris == NewUris(uris, existingTracks)
        IN
        IF Len(uris) = 0
        THEN /\ getOk /\ resp = "ok"
             /\ todo' = todo \ {month}
             /\ UNCHANGED <<pc, token, clientToken, playlists, tracks, reverseTracks,
                            idx, playlistMap, tracksByMonth, issued, remotePlaylists,
                            appendCalls, logAdded>>
        ELSE IF ~getOk
        THEN \* lines 551-564
             /\ resp = "ok"
             /\ Abort("fatal")
             /\ UNCHANGED <<issued, remotePlaylists, appendCalls, logAdded>>
        ELSE IF Len(newUris) = 0
        THEN /\ resp = "ok"
             /\ Sent
             /\ todo' = todo \ {month}
             /\ UNCHANGED <<pc, token, playlists, tracks, reverseTracks, idx,
                            playlistMap, tracksByMonth, remotePlaylists,
                            appendCalls, logAdded>>
        ELSE /\ appendCalls' = Append(appendCalls,
                    [run |-> run, id |-> targetPlaylistId, month |-> month,
                     uris |-> newUris, pending |-> uris, read |-> existingTracks,
                     before |-> playlist.items, resp |-> resp,
                     err |-> AddItemsToPlaylistErr(resp)])
             /\ remotePlaylists' =
                    [k \in 1..Len(remotePlaylists) |->
                        IF remotePlaylists[k].id = targetPlaylistId /\ resp = "ok"
                        THEN [remotePlaylists[k] EXCEPT !.items = @ \o newUris]
                        ELSE remotePlaylists[k]]
             /\ IF AddItemsToPlaylistErr(resp)
                THEN \* line 593
                     /\ CanSend
                     /\ issued' = IssuedAfter
                     /\ Abort("fatal")
                     /\ UNCHANGED logAdded
                ELSE \* line 595
                     /\ Sent
                     /\ logAdded' = Append(logAdded,
                            [run |-> run, month |-> month, n |-> Len(newUris)])
                     /\ todo' = todo \ {month}
                     /\ UNCHANGED <<pc, token, playlists, tracks, reverseTracks, idx,
                                    playlistMap, tracksByMonth>>
    /\ UNCHANGED <<run, exits, tokenFile, expiredUpTo, savedTracks, createCalls,
                   exchanges, pagerVars, callVars>>

\* Line 599: main returns.
Finish ==
    /\ pc = "merge"
    /\ todo = {}
    /\ pc' = "done"
    /\ UNCHANGED <<run, exits, token, clientToken, loopVars, tokenFile, issued,
                   expiredUpTo, remote, history, exchanges, pagerVars, callVars>>

Exits == {"done", "fatal", "panic"}

\* The program is started again (line 369).
Rerun ==
    /\ pc \in Exits
    /\ run < MaxRuns
    /\ run' = run + 1
    /\ exits' = Append(exits, pc)
    /\ Abort("start")
    /\ exchanges' = 0
    /\ UNCHANGED <<tokenFile, issued, expiredUpTo, remote, history, pagerVars, callVars>>

\* Time passes: every token issued so far is past its expiry.
TimePasses ==
    /\ expiredUpTo < issued
    /\ issued < MaxTokens
    /\ expiredUpTo' = issued
    /\ UNCHANGED <<pc, run, exits, token, clientToken, loopVars, tokenFile, issued,
                   remote, history, exchanges, pagerVars, callVars>>

----------------------------------------------------------------------------
\* The saved tracks as the remote lists them: newest first.  URIs are opaque
\* strings, so the lists are taken up to renaming: a URI's first use comes
\* after the first use of the URIs before it ("A", then "B", ...).
Entries == [added_at : Stamps, uri : URIs]
Age(t) == t.y * 12 + t.m
NewestFirst(ts) == \A k \in 1..(Len(ts) - 1) : Age(ts[k].added_at) >= Age(ts[k + 1].added_at)
UriOrder == <<"A", "B", "C", "D">>
FirstUseInOrder(ts) ==
    \A k \in 1..Len(ts), u \in 2..Len(UriOrder) :
        ts[k].uri = UriOrder[u] => \E j \in 1..(k - 1) : ts[j].uri = UriOrder[u - 1]
SavedLists == {ts \in SeqsUpTo(Entries, MaxTracks) : NewestFirst(ts) /\ FirstUseInOrder(ts)}

\* The playlists the user has before the first run.
InitNames == {Label([y |-> 2024, m |-> 1]), OtherName}
InitItems == {<<>>, <<"D", "B">>}
InitPlaylists ==
    {[k \in 1..Len(ps) |-> [id |-> k, name |-> ps[k].name, items |-> ps[k].items]] :
        ps \in SeqsUpTo([name : InitNames, items : InitItems], MaxInitPlaylists)}

PagerOff ==
    /\ pgPc = "off"
    /\ pgWhich = "none"
    /\ pgPages = <<>>
    /\ pgMap = NilMap
    /\ pgItems = <<>>
    /\ pgNext = Null
    /\ pgGets = 0
    /\ pgNetErr = FALSE
    /\ pgResult = [err |-> FALSE, items |-> <<>>]

MainLocalsInit ==
    /\ run = 1
    /\ token = 0
    /\ clientToken = 0
    /\ playlists = <<>>
    /\ tracks = <<>>
    /\ reverseTracks = <<>>
    /\ idx = 1
    /\ playlistMap = EmptyMap
    /\ tracksByMonth = EmptyMap
    /\ todo = {}
    /\ expiredUpTo = 0
    /\ appendCalls = <<>>
    /\ createCalls = <<>>
    /\ logAdded = <<>>
    /\ exchanges = 0
    /\ exits = <<>>

\* A fresh installation: no credential file yet.
Init ==
    /\ pc = "start"
    /\ MainLocalsInit
    /\ tokenFile = NoFile
    /\ issued = 0
    /\ savedTracks \in SavedLists
    /\ remotePlaylists \in InitPlaylists
    /\ PagerOff
    /\ fileAtCall = NoFile

\* One run of main, with access tokens that outlive it.
RunNext ==
    \/ ReadToken
    \/ Authorize
    \/ StartupRefresh
    \/ GetProfile
    \/ FetchPlaylists
    \/ FetchTracks
    \/ Reverse
    \/ BucketStep
    \/ BucketDone
    \/ MergeStep
    \/ Finish

RunSpec == Init /\ [][RunNext]_vars

\* main, run after run.
Next ==
    \/ RunNext
    \/ Rerun

Spec == Init /\ [][Next]_vars

\* The credential lifecycle: main run after run while access tokens expire,
\* with or without a credential file at the start, over a small library.
AuthLists == {ts \in SavedLists : Len(ts) \in {0, 2} /\ \A k \in 1..Len(ts) : ts[k].uri = "A"}
AuthInit ==
    /\ pc = "start"
    /\ MainLocalsInit
    /\ tokenFile \in {NoFile, 1}
    /\ issued = IF tokenFile = NoFile THEN 0 ELSE 1
    /\ savedTracks \in AuthLists
    /\ remotePlaylists = <<>>
    /\ PagerOff
    /\ fileAtCall = NoFile

AuthNext ==
    \/ Next
    \/ TimePasses

AuthSpec == AuthInit /\ [][AuthNext]_vars

----------------------------------------------------------------------------
\* One paginated enumeration, request by request, against a remote that
\* serves a fixed chain of pages (page k at URL k).
PagerSet(st) ==
    /\ pgMap' = st.map
    /\ pgItems' = st.items
    /\ pgNext' = st.next
    /\ pgPc' = IF st.err THEN "returned" ELSE "loop"
    /\ pgResult' = IF st.err THEN [err |-> TRUE, items |-> <<>>] ELSE pgResult

\* Lines 139-158 (77-102).
PagerFirst ==
    /\ pgPc = "first"
    /\ \E getOk \in BOOLEAN :
        /\ PagerSet(FirstPage(pgPages[1], getOk))
        /\ pgNetErr' = ~getOk
    /\ pgGets' = 1
    /\ UNCHANGED <<callVars, mainVars, pgWhich, pgPages>>

\* Lines 160-188 (104-132).
PagerLoop ==
    /\ pgPc = "loop"
    /\ pgNext # Null
    /\ pgGets < MaxGets
    /\ \E getOk \in BOOLEAN :
        /\ PagerSet(LoopBody(EnumState(pgMap, pgItems, pgNext, FALSE),
                             pgPages[pgNext], getOk))
        /\ pgNetErr' = ~getOk
    /\ pgGets' = pgGets + 1
    /\ UNCHANGED <<callVars, mainVars, pgWhich, pgPages>>

\* Line 190 (134).
PagerReturn ==
    /\ pgPc = "loop"
    /\ pgNext = Null
    /\ pgPc' = "returned"
    /\ pgResult' = [err |-> FALSE, items |-> pgItems]
    /\ UNCHANGED <<callVars, mainVars, pgWhich, pgPages, pgMap, pgItems, pgNext, pgGets, pgNetErr>>

\* The chains of pages: page k holds 0..MaxPageItems items, told apart by
\* page and position; either field of a page may be missing.
MaxPageItems == 2
PageItems(k, n) == [j \in 1..n |-> 10 * k + j]
ChainsOf(n) ==
    {[k \in 1..n |->
        Page(f[k].hasItems,
             IF f[k].hasItems THEN PageItems(k, f[k].len) ELSE <<>>,
             f[k].hasNext,
             IF ~f[k].hasNext THEN Null ELSE IF k < n THEN k + 1 ELSE Null)] :
        f \in [1..n -> [hasItems : BOOLEAN, len : 0..MaxPageItems, hasNext : BOOLEAN]]}

PagerInit ==
    /\ pc = "off"
    /\ MainLocalsInit
    /\ tokenFile = NoFile
    /\ issued = 0
    /\ savedTracks = <<>>
    /\ remotePlaylists = <<>>
    /\ pgPc = "first"
    /\ pgWhich \in {"EnumerateCurrentUsersPlaylists", "EnumerateUsersSavedTracks"}
    /\ \E n \in 1..MaxPages : pgPages \in ChainsOf(n)
    /\ pgMap = NilMap
    /\ pgItems = <<>>
    /\ pgNext = Null
    /\ pgGets = 0
    /\ pgNetErr = FALSE
    /\ pgResult = [err |-> FALSE, items |-> <<>>]
    /\ fileAtCall = NoFile

PagerNext ==
    \/ PagerFirst
    \/ PagerLoop
    \/ PagerReturn

PagerSpec == PagerInit /\ [][PagerNext]_vars

----------------------------------------------------------------------------
\* One run of main over a library whose entries may be malformed: the
\* well-formed entries newest first.
AnyEntries == [added_at : Stamps \cup {BadStamp}, uri : {"A", NoUri}]
AnyLists ==
    {ts \in SeqsUpTo(AnyEntries, MaxTracks) :
        \A i, j \in 1..Len(ts) :
            (i < j /\ DecodableAddedAt(ts[i]) /\ DecodableAddedAt(ts[j]))
                => Age(ts[i].added_at) >= Age(ts[j].added_at)}

EntryInit ==
    /\ pc = "start"
    /\ MainLocalsInit
    /\ tokenFile = NoFile
    /\ issued = 0
    /\ savedTracks \in AnyLists
    /\ remotePlaylists = <<>>
    /\ PagerOff
    /\ fileAtCall = NoFile

EntrySpec == EntryInit /\ [][RunNext]_vars

----------------------------------------------------------------------------
\* AddItemsToPlaylist called on its own (lines 194-229), with any list of
\* URIs: the body is marshalled and posted, whatever the list holds; only a
\* transport error is returned.
AddItemsToPlaylistCall ==
    /\ pc = "append"
    /\ \E k \in 1..Len(remotePlaylists), uris \in SeqsUpTo(URIs, MaxUris),
          resp \in Responses :
        LET playlistId == remotePlaylists[k].id IN
        /\ appendCalls' = Append(appendCalls,
               [run |-> run, id |-> playlistId, month |-> remotePlaylists[k].name,
                uris |-> uris, pending |-> uris, read |-> {},
                before |-> remotePlaylists[k].items, resp |-> resp,
                err |-> AddItemsToPlaylistErr(resp)])
        /\ remotePlaylists' =
               [j \in 1..Len(remotePlaylists) |->
                   IF j = k /\ resp = "ok"
                   THEN [remotePlaylists[j] EXCEPT !.items = @ \o uris]
                   ELSE remotePlaylists[j]]
        /\ pc' = IF AddItemsToPlaylistErr(resp) THEN "append_err" ELSE "append_ok"
    /\ UNCHANGED <<run, exits, token, clientToken, loopVars, tokenFile, issued,
                   expiredUpTo, savedTracks, createCalls, logAdded, exchanges,
                   pagerVars, callVars>>

AppendInit ==
    /\ pc = "append"
    /\ MainLocalsInit
    /\ tokenFile = NoFile
    /\ issued = 0
    /\ savedTracks = <<>>
    /\ remotePlaylists \in InitPlaylists \ {<<>>}
    /\ PagerOff
    /\ fileAtCall = NoFile

AppendSpec == AppendInit /\ [][AddItemsToPlaylistCall]_vars

----------------------------------------------------------------------------
\* WriteTokenToPath step by step (lines 278-294); token is the token to
\* write.  The process may be killed between any two steps.
WriteSteps == {"write", "write_create", "write_encode"}

\* Line 279: os.MkdirAll.
WriteMkdirAll ==
    /\ pc = "write"
    /\ \E ok \in BOOLEAN :
        IF ok
        THEN /\ tokenFile' = IF tokenFile = NoDir THEN NoFile ELSE tokenFile
             /\ pc' = "write_create"
        ELSE /\ pc' = "write_err"
             /\ UNCHANGED tokenFile
    /\ UNCHANGED <<run, exits, token, clientToken, loopVars, issued, expiredUpTo,
                   remote, history, exchanges, pagerVars, callVars>>

\* Line 283: os.Create makes the file or truncates it.
WriteCreate ==
    /\ pc = "write_create"
    /\ \E ok \in BOOLEAN :
        IF ok
        THEN /\ tokenFile' = Partial
             /\ pc' = "write_encode"
        ELSE /\ pc' = "write_err"
             /\ UNCHANGED tokenFile
    /\ UNCHANGED <<run, exits, token, clientToken, loopVars, issued, expiredUpTo,
                   remote, history, exchanges, pagerVars, callVars>>

\* Lines 289-293: the encoder writes the token into the open file.
WriteEncode ==
    /\ pc = "write_encode"
    /\ \E ok \in BOOLEAN :
        IF ok
        THEN /\ tokenFile' = token
             /\ pc' = "write_ok"
        ELSE /\ tokenFile' = Partial
             /\ pc' = "write_err"
    /\ UNCHANGED <<run, exits, token, clientToken, loopVars, issued, expiredUpTo,
                   remote, history, exchanges, pagerVars, callVars>>

\* The process is killed during the call.
WriteCrash ==
    /\ pc \in WriteSteps
    /\ pc' = "crashed"
    /\ UNCHANGED <<run, exits, token, clientToken, loopVars, tokenFile, issued,
                   expiredUpTo, remote, history, exchanges, pagerVars, callVars>>

WriteInit ==
    /\ pc = "write"
    /\ run = 1
    /\ tokenFile \in {NoDir, NoFile} \cup 1..MaxTokens
    /\ token \in 1..MaxTokens
    /\ issued = MaxTokens
    /\ clientToken = 0
    /\ playlists = <<>>
    /\ tracks = <<>>
    /\ reverseTracks = <<>>
    /\ idx = 1
    /\ playlistMap = EmptyMap
    /\ tracksByMonth = EmptyMap
    /\ todo = {}
    /\ expiredUpTo = 0
    /\ appendCalls = <<>>
    /\ createCalls = <<>>
    /\ logAdded = <<>>
    /\ exchanges = 0
    /\ exits = <<>>
    /\ savedTracks = <<>>
    /\ remotePlaylists = <<>>
    /\ PagerOff
    /\ fileAtCall = tokenFile

WriteNext ==
    \/ WriteMkdirAll
    \/ WriteCreate
    \/ WriteEncode
    \/ WriteCrash

WriteSpec == WriteInit /\ [][WriteNext]_vars

----------------------------------------------------------------------------
\* Properties.

\* The label of a timestamp, as the design states it: "Month 'YY".
MonthLabel(t) == <<MonthName[t.m], t.y % 100>>

Count(seq, x) == Cardinality({k \in 1..Len(seq) : seq[k] = x})

CallsOfRun(calls, r) == {k \in 1..Len(calls) : calls[k].run = r}

\* The library holds no URI twice.
DistinctSaved ==
    \A i, j \in 1..Len(savedTracks) : savedTracks[i].uri = savedTracks[j].uri => i = j

\* C1 (for a library that holds no URI twice): after a run that reaches the end of main, every saved track fetched by
\* the run has its URI in a remote playlist named by the month label of its
\* added_at, whatever the remote answered to the append calls.
C1_SavedTracksInPlaylists ==
    (pc = "done" /\ DistinctSaved) =>
        \A k \in 1..Len(tracks) :
            \E p \in Range(remotePlaylists) :
                /\ p.name = MonthLabel(tracks[k].added_at)
                /\ tracks[k].uri \in Range(p.items)

\* C2 (for a library that holds no URI twice): a run that follows a run which reached the end of main, and whose
\* appends were all accepted, issues no append call (nothing else changes the
\* saved tracks or the playlists in between).
C2_SecondRunAppendsNothing ==
    \A k \in 1..Len(appendCalls) :
        LET c == appendCalls[k] IN
        ~ /\ DistinctSaved
          /\ c.run > 1
          /\ exits[c.run - 1] = "done"
          /\ \A j \in CallsOfRun(appendCalls, c.run - 1) : appendCalls[j].resp = "ok"

\* C3 (for a library that holds no URI twice): every URI sent in an append call is absent from the full contents the
\* target playlist has at the time of the call.
C3_NeverAppendsPresentUri ==
    \A k \in 1..Len(appendCalls) :
        DistinctSaved =>
        \A u \in Range(appendCalls[k].uris) : u \notin Range(appendCalls[k].before)


\* A chain every page of which has both fields.
WellFormed(pages) == \A k \in 1..Len(pages) : pages[k].hasItems /\ pages[k].hasNext

\* C4: against a chain of N >= 1 well-formed pages, an enumeration that
\* returns without a transport error returns the concatenation of the N
\* pages' items in page order; with a transport error it returns an error.
C4_PaginationComplete ==
    (pgPc = "returned" /\ WellFormed(pgPages)) =>
        IF pgNetErr
        THEN pgResult.err
        ELSE /\ ~pgResult.err
             /\ pgResult.items = Concat([k \in 1..Len(pgPages) |-> pgPages[k].items])

C4_Witness ==
    /\ pgPc = "returned"
    /\ WellFormed(pgPages)
    /\ Len(pgPages) = MaxPages
    /\ ~pgResult.err
    /\ Len(pgResult.items) > MaxPages

\* C5: the URIs passed to an append call are the label's pending sequence
\* without the URIs read from the target playlist, in pending order.
C5_DedupCorrect ==
    \A k \in 1..Len(appendCalls) :
        LET c == appendCalls[k]
            Keep(u) == u \notin c.read
        IN  /\ c.uris = SelectSeq(c.pending, Keep)
            /\ (c.run = run /\ pc \in {"merge", "done"}) => c.pending = tracksByMonth[c.month]

\* Playlist {X, Y}, pending [X, c, Y, d]: the delta is [c, d].
C5_Witness ==
    \E k \in 1..Len(appendCalls) :
        LET c == appendCalls[k] IN
        /\ Len(c.pending) = 4
        /\ Cardinality(c.read) = 2
        /\ c.pending[1] \in c.read
        /\ c.pending[3] \in c.read
        /\ c.uris = <<c.pending[2], c.pending[4]>>
        /\ c.pending[2] # c.pending[4]

\* C6: within one run at most one create-playlist call is issued per label,
\* and a label's resolved playlist id, once set, stays as it is for the rest
\* of the run.
OneCreatePerLabel ==
    \A i, j \in 1..Len(createCalls) :
        (createCalls[i].run = createCalls[j].run /\ createCalls[i].name = createCalls[j].name)
            => i = j

ResolvedIdKept ==
    (pc' \in {"bucket", "merge", "done"} /\ run' = run) =>
        \A l \in DOMAIN playlistMap :
            l \in DOMAIN playlistMap' /\ playlistMap'[l] = playlistMap[l]

C6_SingleCreation == []OneCreatePerLabel /\ [][ResolvedIdKept]_vars

\* Three tracks of one month, no playlist of that name: one create call.
C6_Witness ==
    /\ pc = "done"
    /\ \E l \in DOMAIN tracksByMonth :
        /\ Len(tracksByMonth[l]) >= 3
        /\ \E k \in CallsOfRun(createCalls, run) : createCalls[k].name = l

\* C7: for a label that is the name of a playlist in the list fetched at the
\* start of the run, the run issues no create-playlist call, and the id it
\* uses is that of the first playlist of the list with that name.
FirstNamed(name) ==
    CHOOSE k \in 1..Len(playlists) :
        /\ playlists[k].name = name
        /\ \A j \in 1..(k - 1) : playlists[j].name # name

C7_PlaylistReuse ==
    pc \in {"bucket", "merge", "done"} =>
        \A n \in 1..Len(playlists) :
            LET l == playlists[n].name IN
            /\ \A k \in CallsOfRun(createCalls, run) : createCalls[k].name # l
            /\ l \in DOMAIN playlistMap => playlistMap[l] = playlists[FirstNamed(l)].id
            /\ \A k \in CallsOfRun(appendCalls, run) :
                   appendCalls[k].month = l => appendCalls[k].id = playlists[FirstNamed(l)].id

C7_Witness ==
    /\ pc = "done"
    /\ \E i, j \in 1..Len(playlists) :
        /\ i < j
        /\ playlists[i].name = playlists[j].name
        /\ playlists[i].name \in DOMAIN playlistMap
        /\ \E k \in CallsOfRun(appendCalls, run) : appendCalls[k].month = playlists[i].name

\* C8: after the bucketing loop the labels with a pending sequence are the
\* month labels of the fetched tracks, and a label's pending sequence holds
\* the URIs of the tracks of that month, each as often as the month has it.
C8_MonthBucketing ==
    pc = "merge" =>
        /\ DOMAIN tracksByMonth = {MonthLabel(tracks[k].added_at) : k \in 1..Len(tracks)}
        /\ \A l \in DOMAIN tracksByMonth, u \in URIs :
               Count(tracksByMonth[l], u) =
                   Cardinality({k \in 1..Len(tracks) :
                       tracks[k].uri = u /\ MonthLabel(tracks[k].added_at) = l})

C8_Witness ==
    /\ pc = "merge"
    /\ Len(tracks) = 2
    /\ DOMAIN tracksByMonth = {<<"January", 24>>, <<"February", 24>>}
    /\ tracksByMonth[<<"January", 24>>] # tracksByMonth[<<"February", 24>>]

\* C9: when a refresh has changed the access token in use during a run, the
\* credential file holds the in-memory access token at the end of the run.
C9_RefreshWrittenBack ==
    (pc = "done" /\ clientToken # token) => tokenFile = clientToken

\* C10: a run in which the remote rejected an append does not log the tracks
\* as added and reach the end of main.
C10_RejectedAppendAborts ==
    ~ /\ pc = "done"
      /\ \E k \in CallsOfRun(appendCalls, run) :
            /\ appendCalls[k].resp = "rejected"
            /\ \E j \in CallsOfRun(logAdded, run) :
                   logAdded[j].month = appendCalls[k].month


\* C11 (for a library that holds no URI twice): a run that follows an aborted
\* run creates no playlist for a label the aborted run created a playlist
\* for, and sends no URI the aborted run appended to the same playlist.
C11_RestartSafe ==
    /\ \A i, j \in 1..Len(createCalls) :
           LET a == createCalls[i]
               b == createCalls[j] IN
           ~ /\ b.run = a.run + 1
             /\ exits[a.run] \in {"fatal", "panic"}
             /\ a.resp = "ok"
             /\ b.name = a.name
    /\ \A i, j \in 1..Len(appendCalls) :
           LET a == appendCalls[i]
               b == appendCalls[j] IN
           ~ /\ DistinctSaved
             /\ b.run = a.run + 1
             /\ exits[a.run] \in {"fatal", "panic"}
             /\ a.resp = "ok"
             /\ b.id = a.id
             /\ Range(a.uris) \cap Range(b.uris) # {}

\* The first half of C11 alone: no second playlist for a label.
RestartCreatesNoSecond ==
    \A i, j \in 1..Len(createCalls) :
        (createCalls[i].resp = "ok" /\ createCalls[j].run > createCalls[i].run)
            => createCalls[j].name # createCalls[i].name

\* C12 (for a library that holds no URI twice): no append call is issued for
\* a label whose pending URIs are all in the target playlist at the time.
C12_EmptyDeltaNoAppend ==
    DistinctSaved =>
        \A k \in 1..Len(appendCalls) :
            ~(Range(appendCalls[k].pending) \subseteq Range(appendCalls[k].before))

\* The guard of line 591 alone: an append call carries at least one URI.
AppendsAreNonEmpty ==
    \A k \in 1..Len(appendCalls) : Len(appendCalls[k].uris) > 0


\* C13: AddItemsToPlaylist called with an empty list of URIs sends no
\* request: every request it sent carries at least one URI.
C13_EmptyListNoRequest ==
    pc \in {"append_ok", "append_err"} =>
        \A k \in 1..Len(appendCalls) : appendCalls[k].uris # <<>>

\* C20: WriteTokenToPath writes the token also where the directory was
\* missing, and a process killed during the call leaves a file that was
\* valid before with its previous content or with the complete new token.
C20_CrashKeepsValidFile ==
    /\ pc = "write_ok" => tokenFile = token
    /\ (pc = "crashed" /\ fileAtCall > 0) => tokenFile \in {fileAtCall, token}

\* The first half of C20 alone.
WriteCreatesDirectories ==
    pc = "write_ok" => tokenFile = token


\* The positions of main from which requests go to the remote library.
RemotePhase == {"profile", "playlists", "tracks", "reverse", "bucket", "merge", "done"}

\* A run without a credential file enters the authorization flow.
AbsentFileAuthorizes ==
    (pc = "start" /\ tokenFile = NoFile /\ pc' # pc) => pc' = "auth"

\* The authorization flow is left for the rest of the run only after one
\* exchange, with the exchanged token in the credential file.
AuthorizedOnceAndPersisted ==
    (pc = "auth" /\ pc' \notin {"auth", "fatal"}) =>
        /\ exchanges = 0 /\ exchanges' = 1
        /\ token' > 0
        /\ tokenFile' = token'

\* C14: a run that finds no credential file does not abort for it: it
\* enters the authorization flow, exchanges exactly once, writes the
\* credential to the file, and only then sends requests to the library.
C14_FirstRunAuthorizes ==
    /\ [](pc \in RemotePhase /\ exchanges > 0 =>
              exchanges = 1 /\ token > 0 /\ tokenFile >= token)
    /\ [][AbsentFileAuthorizes /\ AuthorizedOnceAndPersisted]_vars

C14_Witness ==
    /\ pc = "done"
    /\ run = 1
    /\ exchanges = 1
    /\ tokenFile = token
    /\ Len(appendCalls) > 0


\* C15: the list the bucketing loop iterates is the fetched list reversed:
\* the same length, its k-th element the fetched list's k-th from the end.
C15_Reversed ==
    pc = "bucket" =>
        /\ Len(reverseTracks) = Len(tracks)
        /\ \A k \in 1..Len(tracks) :
               reverseTracks[k] = tracks[Len(tracks) + 1 - k]

\* C16: a page served without a next field ends the enumeration with an
\* error, on the first request and on every later one.
C16_AbsentNextIsError ==
    [][\A k \in 1..Len(pgPages) :
          ( /\ pgGets' = pgGets + 1
            /\ k = (IF pgPc = "first" THEN 1 ELSE pgNext)
            /\ ~pgNetErr'
            /\ ~pgPages[k].hasNext )
          => (pgPc' = "returned" /\ pgResult'.err)]_vars

\* C16 for the first page alone.
AbsentNextOnFirstPageIsError ==
    [][(pgPc = "first" /\ ~pgNetErr' /\ ~pgPages[1].hasNext)
          => (pgPc' = "returned" /\ pgResult'.err)]_vars

\* C17: against a chain of N pages an enumeration sends no more than N
\* requests (it requests no page twice).
C17_NoPageTwice ==
    pgGets <= Len(pgPages)


\* The library holds an entry without a decodable added_at or uri.
HasBadEntry ==
    \E k \in 1..Len(savedTracks) :
        savedTracks[k].added_at = BadStamp \/ savedTracks[k].uri = NoUri

\* C18: a run over a library with a malformed entry, wherever the entry
\* is, sends no append call and does not complete: if it ends, it ends
\* with a failure.
C18_BadEntryNoAppend ==
    HasBadEntry =>
        /\ appendCalls = <<>>
        /\ pc \notin {"merge", "done"}

\* The run ended at the malformed entry after it had created a playlist
\* for an earlier, well-formed entry.
C18_Witness ==
    /\ HasBadEntry
    /\ pc = "panic"
    /\ createCalls # <<>>
    /\ \A k \in 1..Len(createCalls) : createCalls[k].resp = "ok"
    /\ appendCalls = <<>>


\* C19: a step of main in which a token was obtained (by the exchange or by
\* a refresh) and the write of the credential file failed does not end the
\* run: main goes on with the token in memory.
C19_WriteFailureGoesOn ==
    [][(pc \in {"auth", "refresh"} /\ issued' = issued + 1 /\ tokenFile' # issued')
          => /\ pc' \in {"refresh", "profile"}
             /\ issued' \in {token', clientToken'}]_vars

====
